---- MODULE Spec2Model ----
(***************************************************************************)
(* Model of the email directory store (class EmailDB and its CLI commands). *)
(*                                                                         *)
(* Strings that the program inspects character by character (import lines  *)
(* and directory keys) are sequences of one-character strings.  A JS       *)
(* object with string keys is a sequence of entries in insertion order     *)
(* (the order of for-in and of JSON.stringify); a JS Set is a sequence     *)
(* without duplicates in insertion order.  A missing property is the       *)
(* value Undefined.                                                        *)
(***************************************************************************)
EXTENDS Integers, Sequences, FiniteSets, TLC

VARIABLES
    file,       \* content of data/db.json
    tmp,        \* content of data/db.json.tmp
    db,         \* this.db of the running process
    pc,         \* position of the running process
    last,       \* the last call made on the store: operation, arguments, result
    nops,       \* number of calls made so far that change the store or the file
    found,      \* the object returned by the last lookup() of the process
    drain       \* the pageAll() call in progress and the command that made it

vars == <<file, tmp, db, pc, last, nops, found, drain>>

Undefined == "undefined"

----------------------------------------------------------------------------
(* Characters and the email grammar (EmailRegex)                           *)

Lower == {"a","b","c","d","e","f","g","h","i","j","k","l","m",
          "n","o","p","q","r","s","t","u","v","w","x","y","z"}

Upper == {"A","B","C","D","E","F","G","H","I","J","K","L","M",
          "N","O","P","Q","R","S","T","U","V","W","X","Y","Z"}

Digit == {"0","1","2","3","4","5","6","7","8","9"}

\* [a-zA-Z]
IsLetter(c) == c \in Lower \cup Upper

\* [a-zA-Z\-0-9]
IsLabelChar(c) == c \in Lower \cup Upper \cup Digit \cup {"-"}

\* [^<>()\[\]\\.,;:\s@"]
IsAtomChar(c) ==
    c \notin {"<", ">", "(", ")", "[", "]", "\\", ".", ",", ";", ":",
              " ", "\t", "\n", "\r", "@", "\""}

CharAt(s, i) == IF i >= 1 /\ i <= Len(s) THEN s[i] ELSE ""

\* The position after the longest run of atom characters that starts at i.
RECURSIVE AtomRun(_, _)
AtomRun(s, i) ==
    IF i <= Len(s) /\ IsAtomChar(s[i]) THEN AtomRun(s, i + 1) ELSE i

RECURSIVE LabelRun(_, _)
LabelRun(s, i) ==
    IF i <= Len(s) /\ IsLabelChar(s[i]) THEN LabelRun(s, i + 1) ELSE i

RECURSIVE LetterRun(_, _)
LetterRun(s, i) ==
    IF i <= Len(s) /\ IsLetter(s[i]) THEN LetterRun(s, i + 1) ELSE i

\* atom+(\.atom+)* taken greedily from position i; the position after it, or 0
\* when no atom starts at i.  A shorter local part is followed by an atom
\* character or a dot, never by "@", so backtracking finds no other one.
RECURSIVE DotAtoms(_, _)
DotAtoms(s, e) ==
    IF CharAt(s, e) = "." /\ AtomRun(s, e + 1) > e + 1
    THEN DotAtoms(s, AtomRun(s, e + 1))
    ELSE e

LocalEnd(s, i) ==
    IF AtomRun(s, i) = i THEN 0 ELSE DotAtoms(s, AtomRun(s, i))

\* ([a-zA-Z\-0-9]+\.)+[a-zA-Z]{2,} from position d: as many "label." groups as
\* leave at least two letters behind them, then the longest run of letters.
\* The position after the match, or 0.  best is the result of the groups
\* consumed so far.
RECURSIVE DomainGroups(_, _, _)
DomainGroups(s, d, best) ==
    LET e == LabelRun(s, d) IN
    IF e > d /\ CharAt(s, e) = "."
    THEN LET l == LetterRun(s, e + 1) IN
         DomainGroups(s, e + 1, IF l - (e + 1) >= 2 THEN l ELSE best)
    ELSE best

DomainEnd(s, d) == DomainGroups(s, d, 0)

\* The position after the match of EmailRegex that starts at i, or 0.  The
\* test strings hold no double quote and no bracket, so the quoted local part
\* and the IPv4 literal never match.
MatchAt(s, i) ==
    LET e == LocalEnd(s, i) IN
    IF e = 0 \/ CharAt(s, e) # "@" THEN 0 ELSE DomainEnd(s, e + 1)

RECURSIVE FirstMatch(_, _)
FirstMatch(s, i) ==
    IF i > Len(s) THEN <<>>
    ELSE IF MatchAt(s, i) # 0 THEN SubSeq(s, i, MatchAt(s, i) - 1)
    ELSE FirstMatch(s, i + 1)

\* The strings the model passes to filterEmail: import lines and keys.
AddrA    == <<"a", "@", "x", ".", "c", "o">>
AddrB    == <<"b", "@", "y", ".", "r", "u">>
BadComma == <<"b", "@", "y", ".", "r", "u", ",">>
BadSpace == <<" ", "b", "@", "y", ".", "r", "u">>
Junk     == <<"z", "z">>

Strings == {AddrA, AddrB, BadComma, BadSpace, Junk}

\* line.match(EmailRegex) for each of these strings, computed once.
EmailMatch == [line \in Strings |-> FirstMatch(line, 1)]

\* filterEmail(line): match[0] of the first match, or <<>> for null.
filterEmail(line) == EmailMatch[line]

----------------------------------------------------------------------------
(* Values                                                                  *)

Statuses == {"dirty", "clean", "broken"}

\* Delivery times, in days since some epoch.
Times == {1, 2}

\* lastDelivered.format(): the ISO-8601 text of a moment.
IsoText == <<"2018-03-01T00:00:00Z", "2018-03-02T00:00:00Z">>

format(t) == IsoText[t]

\* Bounds of the exploration.
MaxFileRecs == 2
MaxOps      == 2

----------------------------------------------------------------------------
(* Sequences as JS arrays, Sets and objects                                *)

Range(s) == {s[i] : i \in 1..Len(s)}

Includes(s, x) == \E i \in 1..Len(s) : s[i] = x

\* new Set(iterable): the distinct members in order of first occurrence.
RECURSIVE NewSet(_)
NewSet(s) ==
    IF s = <<>> THEN <<>>
    ELSE LET front == NewSet(SubSeq(s, 1, Len(s) - 1)) IN
         IF Includes(front, s[Len(s)]) THEN front ELSE Append(front, s[Len(s)])

\* set.add(x)
SetAdd(set, x) == IF Includes(set, x) THEN set ELSE Append(set, x)

Keys(d) == [i \in 1..Len(d) |-> d[i].email]

Has(d, k) == \E i \in 1..Len(d) : d[i].email = k

IndexOf(d, k) == CHOOSE i \in 1..Len(d) : d[i].email = k

\* this.db[k]
Get(d, k) == d[IndexOf(d, k)]

\* this.db[k] = rec: an existing key keeps its place, a new key goes last.
Put(d, k, rec) ==
    LET e == [rec EXCEPT !.email = k] IN
    IF Has(d, k) THEN [d EXCEPT ![IndexOf(d, k)] = e] ELSE Append(d, e)

RECURSIVE Remove(_, _)
Remove(d, k) ==
    IF d = <<>> THEN <<>>
    ELSE IF d[1].email = k THEN Tail(d)
    ELSE <<d[1]>> \o Remove(Tail(d), k)

\* delete this.db[k]
Delete(d, k) == Remove(d, k)

----------------------------------------------------------------------------
(* Persistence: load and save                                              *)

\* An entry of the persisted JSON object.  tags is the JSON value of the
\* "tags" property: an array, or an object without members.
RawEntry(email, tagItems, locale, status, lastDelivered, broken, clean, dirty) ==
    [email |-> email, tags |-> [isArray |-> TRUE, items |-> tagItems],
     locale |-> locale, status |-> status, lastDelivered |-> lastDelivered,
     broken |-> broken, clean |-> clean, dirty |-> dirty]

NoFile      == [kind |-> "missing", entries |-> <<>>]
CorruptFile == [kind |-> "corrupt", entries |-> <<>>]
JsonFile(entries) == [kind |-> "json", entries |-> entries]

\* The loop body of load() for one record: tags rehydrated, legacy flags
\* folded into status, clean and dirty deleted (broken is kept).
LoadRecord(raw) ==
    [email |-> raw.email,
     tags |-> NewSet(raw.tags.items),
     locale |-> raw.locale,
     status |-> IF raw.broken THEN "broken"
                ELSE IF raw.clean THEN "clean"
                ELSE raw.status,
     lastDelivered |-> raw.lastDelivered,
     broken |-> raw.broken]

\* new Set(rec.tags) throws a TypeError when rec.tags is an object that is
\* not iterable.
LoadThrows(f) ==
    /\ f.kind = "json"
    /\ \E i \in 1..Len(f.entries) : ~f.entries[i].tags.isArray

\* this.db after load(): {} when reading or parsing fails.
load(f) ==
    IF f.kind # "json" THEN <<>>
    ELSE [i \in 1..Len(f.entries) |-> LoadRecord(f.entries[i])]

\* JSON.stringify of one record.  A Set has no enumerable own properties:
\* it is written as {} unless Set.prototype.toJSON exists (then as an array).
StringifyRecord(rec, toJSON) ==
    [email |-> rec.email,
     tags |-> IF toJSON THEN [isArray |-> TRUE, items |-> rec.tags]
              ELSE [isArray |-> FALSE, items |-> <<>>],
     locale |-> rec.locale, status |-> rec.status,
     lastDelivered |-> rec.lastDelivered,
     broken |-> rec.broken, clean |-> FALSE, dirty |-> FALSE]

\* JSON.stringify(this.db, null, 4)
stringify(d, toJSON) ==
    JsonFile([i \in 1..Len(d) |-> StringifyRecord(d[i], toJSON)])

----------------------------------------------------------------------------
(* Mutations: insert, cleanup, setStatus, setLastDelivered                 *)

\* The record insert() creates for an address that is not in the directory.
NewRecord(email) ==
    [email |-> email, tags |-> <<>>, locale |-> Undefined, status |-> "dirty",
     lastDelivered |-> Undefined, broken |-> FALSE]

\* for(const tag of Array.from(tags)) res.tags.add(tag)
RECURSIVE AddAll(_, _)
AddAll(set, tags) ==
    IF tags = <<>> THEN set ELSE AddAll(SetAdd(set, Head(tags)), Tail(tags))

\* Faulty variant: the supplied tags replace the record's tags.
MergeTags_Replace(old, tags) == tags

\* res.tags after the loop and after new Set([ ...res.tags, ...tags ])
MergeTags(old, tags) == NewSet(AddAll(old, tags) \o tags)

\* addedTags after the loop: some supplied tag was not in the record's set.
AddedTags(old, tags) == \E i \in 1..Len(tags) : ~Includes(old, tags[i])

\* Faulty variant: a supplied locale counts even when the record has it.
CountsAsUpdated_AnyLocale(rec, tags, locale) ==
    AddedTags(rec.tags, tags) \/ locale # Undefined

\* The condition under which insert() counts the address as updated.
CountsAsUpdated(rec, tags, locale) ==
    AddedTags(rec.tags, tags) \/ (locale # Undefined /\ locale # rec.locale)

\* Faulty variant: the record of a known address is created anew, with status
\* dirty and no lastDelivered, before the tags are merged.
InsertLine_Recreate(r, line, tags, locale) ==
    LET email == filterEmail(line) IN
    IF email = <<>> THEN r
    ELSE LET rec2 == [NewRecord(email) EXCEPT
                         !.tags = MergeTags(IF Has(r.db, email)
                                            THEN Get(r.db, email).tags
                                            ELSE <<>>, tags),
                         !.locale = locale]
         IN  [db |-> Put(r.db, email, rec2),
              inserted |-> r.inserted + (IF Has(r.db, email) THEN 0 ELSE 1),
              updated |-> r.updated]

\* One pass of the loop of insert() over a line; r holds this.db and result.
InsertLine(r, line, tags, locale) ==
    LET email == filterEmail(line) IN
    IF email = <<>> THEN r
    ELSE LET isNew == ~Has(r.db, email)
             d1    == IF isNew THEN Put(r.db, email, NewRecord(email)) ELSE r.db
             rec   == Get(d1, email)
             rec2  == [rec EXCEPT !.tags = MergeTags(rec.tags, tags),
                                  !.locale = IF locale # Undefined THEN locale
                                             ELSE rec.locale]
         IN  [db |-> Put(d1, email, rec2),
              inserted |-> r.inserted + (IF isNew THEN 1 ELSE 0),
              updated |-> r.updated +
                          (IF CountsAsUpdated(rec, tags, locale) THEN 1 ELSE 0)]

RECURSIVE InsertLines(_, _, _, _)
InsertLines(r, lines, tags, locale) ==
    IF lines = <<>> THEN r
    ELSE InsertLines(InsertLine(r, Head(lines), tags, locale),
                     Tail(lines), tags, locale)

\* insert({ filename, tags, locale }) on the lines of the file.
insert(d, lines, tags, locale) ==
    InsertLines([db |-> d, inserted |-> 0, updated |-> 0], lines, tags, locale)

\* Faulty variant: the record is copied to the corrected key and the old key
\* is not deleted.
CleanupKey_KeepOldKey(r, email) ==
    LET rec      == Get(r.db, email)
        filtered == filterEmail(email)
    IN  IF filtered = <<>>
        THEN [db |-> Delete(r.db, email),
              deleted |-> r.deleted + 1, fixed |-> r.fixed]
        ELSE IF filtered # email
        THEN [db |-> Put(r.db, filtered, rec),
              deleted |-> r.deleted, fixed |-> r.fixed + 1]
        ELSE r

\* One pass of the loop of cleanup() over a key; r holds this.db and result.
CleanupKey(r, email) ==
    LET rec      == Get(r.db, email)
        filtered == filterEmail(email)
    IN  IF filtered = <<>>
        THEN [db |-> Delete(r.db, email),
              deleted |-> r.deleted + 1, fixed |-> r.fixed]
        ELSE IF filtered # email
        THEN [db |-> Delete(Put(r.db, filtered, rec), email),
              deleted |-> r.deleted, fixed |-> r.fixed + 1]
        ELSE r

\* for(const email in this.db): the keys present when the loop starts, in
\* insertion order; a key deleted before its turn is skipped.  A key added
\* by the loop is a normalized address, for which the body does nothing, so
\* whether for-in visits it makes no difference.
RECURSIVE CleanupKeys(_, _)
CleanupKeys(r, keys) ==
    IF keys = <<>> THEN r
    ELSE CleanupKeys(IF Has(r.db, Head(keys)) THEN CleanupKey(r, Head(keys))
                     ELSE r,
                     Tail(keys))

cleanup(d) == CleanupKeys([db |-> d, deleted |-> 0, fixed |-> 0], Keys(d))

\* Faulty variant: a record that gets a new status loses its lastDelivered.
SetStatusRecord_DropsDelivered(rec, emails, status) ==
    IF Includes(emails, rec.email)
    THEN [rec EXCEPT !.status = status, !.lastDelivered = Undefined]
    ELSE rec

\* The body of the loop of setStatus() for one record.
SetStatusRecord(rec, emails, status) ==
    IF Includes(emails, rec.email) THEN [rec EXCEPT !.status = status] ELSE rec

\* Faulty variant: every named record counts, changed or not.
StatusChanges_AnyNamed(rec, emails, status) == Includes(emails, rec.email)

\* The record is counted by setStatus(): it is named and its status differs.
StatusChanges(rec, emails, status) ==
    Includes(emails, rec.email) /\ rec.status # status

setStatus(d, emails, status) ==
    [db |-> [i \in 1..Len(d) |-> SetStatusRecord(d[i], emails, status)],
     res |-> Cardinality({i \in 1..Len(d) : StatusChanges(d[i], emails, status)})]

\* Faulty variant: an address whose stored value equals the new one is not
\* counted (the policy of setStatus).
SetLastDeliveredOne_SkipNoOp(r, email, lastDelivered) ==
    IF ~Has(r.db, email) THEN r
    ELSE [db |-> Put(r.db, email,
                     [Get(r.db, email) EXCEPT
                         !.lastDelivered = format(lastDelivered)]),
          res |-> r.res +
                  (IF Get(r.db, email).lastDelivered = format(lastDelivered)
                   THEN 0 ELSE 1)]

\* One pass of the loop of setLastDelivered() over an input address.
SetLastDeliveredOne(r, email, lastDelivered) ==
    IF ~Has(r.db, email) THEN r
    ELSE [db |-> Put(r.db, email,
                     [Get(r.db, email) EXCEPT
                         !.lastDelivered = format(lastDelivered)]),
          res |-> r.res + 1]

RECURSIVE SetLastDeliveredAll(_, _, _)
SetLastDeliveredAll(r, emails, lastDelivered) ==
    IF emails = <<>> THEN r
    ELSE SetLastDeliveredAll(SetLastDeliveredOne(r, Head(emails), lastDelivered),
                             Tail(emails), lastDelivered)

setLastDelivered(d, emails, lastDelivered) ==
    SetLastDeliveredAll([db |-> d, res |-> 0], emails, lastDelivered)

----------------------------------------------------------------------------
(* Queries: guessEmailLocale and lookup                                    *)

\* email.match(/\.ru$/): the last three characters are ".ru".
EndsInDotRu(email) ==
    /\ Len(email) >= 3
    /\ SubSeq(email, Len(email) - 2, Len(email)) = <<".", "r", "u">>

guessEmailLocale(email) == IF EndsInDotRu(email) THEN "ru" ELSE "en"

\* Faulty variant: the guess is used even when the record stores a locale.
calculatedLocale_AlwaysGuess(rec) == guessEmailLocale(rec.email)

\* rec.locale || this.guessEmailLocale(email)
calculatedLocale(rec) ==
    IF rec.locale \notin {Undefined, ""} THEN rec.locale
    ELSE guessEmailLocale(rec.email)

\* Faulty variant: without a filter broken records are not skipped.
SkipOnStatus_KeepBroken(rec, statusOnly) ==
    statusOnly # Undefined /\ rec.status # statusOnly

\* The two status tests of the loop of lookup(): the record is skipped.
SkipOnStatus(rec, statusOnly) ==
    \/ statusOnly # Undefined /\ rec.status # statusOnly
    \/ (statusOnly = Undefined \/ statusOnly # "broken") /\ rec.status = "broken"

\* The moment that an ISO text denotes, in days since the epoch of Times.
ParseIso(text) == CHOOSE t \in DOMAIN IsoText : IsoText[t] = text

\* Faulty variant: a started day counts as a whole day.
diffDays_RoundUp(now, text) == (now - 2 * ParseIso(text) + 1) \div 2

\* moment().diff(text, 'days'), with now in half days since the epoch of
\* Times: the difference in days, truncated toward zero.
diffDays(now, text) ==
    LET halves == now - 2 * ParseIso(text) IN
    IF halves >= 0 THEN halves \div 2 ELSE 0 - ((0 - halves) \div 2)

\* coldDays is <<>> when the option is absent and <<n>> when it is n.
\* if(coldDays && rec.lastDelivered) { if(d < coldDays) continue }
SkipOnRecency(rec, coldDays, now) ==
    /\ coldDays # <<>> /\ coldDays[1] # 0
    /\ rec.lastDelivered # Undefined
    /\ diffDays(now, rec.lastDelivered) < coldDays[1]

\* _.intersection(a, b): the members of a that are in b, in the order of a.
intersection(a, b) == SelectSeq(a, LAMBDA x : Includes(b, x))

\* Faulty variant: one common tag is enough.
SkipOnTags_AnyTag(rec, tags) ==
    tags # <<>> /\ Len(intersection(rec.tags, tags)) < 1

\* if(_.intersection(recTags, inputTags).length < tags.size) continue
SkipOnTags(rec, tags) == Len(intersection(rec.tags, tags)) < Len(tags)

\* if(locale != null && calculatedLocale !== locale) continue
SkipOnLocale(rec, locale) == locale # Undefined /\ calculatedLocale(rec) # locale

\* The record passes every test of the loop of lookup().
Matches(rec, tags, locale, statusOnly, coldDays, now) ==
    /\ ~SkipOnStatus(rec, statusOnly)
    /\ ~SkipOnRecency(rec, coldDays, now)
    /\ ~SkipOnTags(rec, tags)
    /\ ~SkipOnLocale(rec, locale)

\* result[email]: a new Set with the record's tags and the calculated locale.
\* shared tells whether the Set is the object that the record holds.
ResultEntry(rec) ==
    [email |-> rec.email, tags |-> NewSet(rec.tags),
     locale |-> calculatedLocale(rec), shared |-> FALSE]

\* Faulty variant: the calculated locale is stored in the record.
Visited_WriteBack(rec) == [rec EXCEPT !.locale = calculatedLocale(rec)]

\* The record after the loop of lookup() has visited it: nothing is assigned.
Visited(rec) == rec

\* lookup({ tags, locale, statusOnly, coldDays }) at the time now: this.db
\* after the call and the object returned.
lookup(d, tags, locale, statusOnly, coldDays, now) ==
    LET hits == SelectSeq(d, LAMBDA rec :
                    Matches(rec, tags, locale, statusOnly, coldDays, now))
    IN  [db |-> [i \in 1..Len(d) |-> Visited(d[i])],
         found |-> [i \in 1..Len(hits) |-> ResultEntry(hits[i])]]

\* result[email].tags.add(tag) by the caller of lookup(): the record's own
\* tags change only when the entry shares its Set with the record.
AddToResult(d, entries, i, tag) ==
    [db |-> IF entries[i].shared
            THEN Put(d, entries[i].email,
                     [Get(d, entries[i].email) EXCEPT
                         !.tags = SetAdd(@, tag)])
            ELSE d,
     found |-> [entries EXCEPT ![i].tags = SetAdd(@, tag)]]

----------------------------------------------------------------------------
(* Pagination: pageAll                                                     *)

\* Bound of the exploration: the items of a drain that the model records.
MaxItems == 3

\* The outcome of one fetch: the promise is rejected, or it resolves to a
\* page.  next is response.paging.next: it may be absent, and when present it
\* may or may not start with the API prefix; rest is what follows the prefix.
Failure == [failed |-> TRUE, items |-> <<>>,
            next |-> [present |-> FALSE, prefixed |-> FALSE, rest |-> ""]]

Page(items, next) == [failed |-> FALSE, items |-> items, next |-> next]

NoNext       == [present |-> FALSE, prefixed |-> FALSE, rest |-> ""]
ForeignNext  == [present |-> TRUE, prefixed |-> FALSE, rest |-> ""]
BareNext     == [present |-> TRUE, prefixed |-> TRUE, rest |-> ""]
Cursor(rest) == [present |-> TRUE, prefixed |-> TRUE, rest |-> rest]

\* next.split('https://api.mailgun.net/v3')[1]: what follows the prefix, and
\* undefined when the text does not hold the prefix.
SplitNext(next) == IF next.prefixed THEN next.rest ELSE Undefined

\* if(url): undefined and the empty string are falsy.
IsTruthy(url) == url \notin {Undefined, ""}

NoDrain ==
    [cmd |-> "none", round |-> 0, pc |-> "idle", url |-> Undefined,
     via |-> "none", result |-> <<>>, pages |-> <<>>, more |-> FALSE,
     inflight |-> 0, response |-> Failure]

\* pageAll(mg, fn, limit) is called: result = [], url undefined.
NewDrain(cmd, round) ==
    [NoDrain EXCEPT !.cmd = cmd, !.round = round, !.pc = "request"]

\* The head of the loop: mg.get(url) when url is truthy, fn({ limit })
\* otherwise; the call is awaited.
SendRequest(dr) ==
    [dr EXCEPT !.pc = "await",
               !.via = IF IsTruthy(dr.url) THEN "get" ELSE "fn",
               !.inflight = @ + 1]

\* The awaited promise settles with the outcome r.
Receive(dr, r) ==
    [dr EXCEPT !.pc = "got", !.response = r, !.inflight = @ - 1,
               !.pages = IF r.failed \/ dr.more
                            \/ Len(dr.result) + Len(r.items) > MaxItems
                         THEN @ ELSE Append(@, r.items)]

\* Faulty variant: the new items are put in front.
Accumulate_Prepend(result, items) == items \o result

\* result = [ ...result, ...response.items ]
Accumulate(result, items) == result \o items

\* Faulty variant: an empty page ends the loop only when it has no cursor.
IsLastPage_NoCursor(r) == r.items = <<>> /\ ~IsTruthy(SplitNext(r.next))

\* if(response.items.length === 0) break
IsLastPage(r) == Len(r.items) = 0

\* Faulty variant: after a rejected fetch the items fetched so far are
\* returned.
OnRejected_ReturnPartial(dr) == [dr EXCEPT !.pc = "returned"]

\* The awaited promise is rejected: the exception leaves pageAll.
OnRejected(dr) == [dr EXCEPT !.pc = "raised", !.result = <<>>]

\* The rest of the loop body for the outcome received.  Reading .split of an
\* absent next raises a TypeError.  The model records the first MaxItems
\* items of a drain; more tells that the drain has fetched others.
Continue(dr) ==
    LET r == dr.response IN
    IF r.failed THEN OnRejected(dr)
    ELSE IF IsLastPage(r) THEN [dr EXCEPT !.pc = "returned"]
    ELSE IF ~r.next.present THEN [dr EXCEPT !.pc = "raised", !.result = <<>>]
    ELSE IF Len(dr.result) + Len(r.items) > MaxItems
    THEN [dr EXCEPT !.pc = "request", !.more = TRUE,
                    !.url = SplitNext(r.next)]
    ELSE [dr EXCEPT !.pc = "request",
                    !.result = Accumulate(dr.result, r.items),
                    !.url = SplitNext(r.next)]

\* The loop of update_delivered over the drained events, in their order:
\* db.setLastDelivered([ item.recipient ], moment.utc(item.timestamp * 1000))
RECURSIVE ApplyEvents(_, _)
ApplyEvents(r, events) ==
    IF events = <<>> THEN r
    ELSE ApplyEvents(
             LET one == setLastDelivered(r.db, <<Head(events).recipient>>,
                                         Head(events).timestamp)
             IN  [db |-> one.db, res |-> r.res + one.res],
             Tail(events))

\* fs.existsSync / fs.renameSync of save(): the files after the first
\* statement.
RenameBackup_InPlace(f, t) == [file |-> f, tmp |-> t]

RenameBackup(f, t) ==
    IF f.kind # "missing" THEN [file |-> NoFile, tmp |-> f]
    ELSE [file |-> f, tmp |-> t]

----------------------------------------------------------------------------
(* Inputs                                                                  *)

\* Entries a persisted file may hold: records of the current format, records
\* of the legacy format (broken/clean/dirty flags, no status) and malformed
\* keys.
FileEntries ==
    { RawEntry(AddrA, <<"t2">>, "ru", Undefined, Undefined,
               TRUE, FALSE, FALSE),
      RawEntry(AddrB, <<"t1", "t2">>, "en", "clean", format(1),
               FALSE, FALSE, FALSE),
      RawEntry(BadComma, <<"t1">>, Undefined, "dirty", Undefined,
               FALSE, FALSE, FALSE),
      RawEntry(BadSpace, <<>>, Undefined, Undefined, format(2),
               FALSE, TRUE, FALSE),
      RawEntry(Junk, <<"t2", "t2">>, Undefined, Undefined, Undefined,
               FALSE, FALSE, TRUE) }

DistinctKeys(entries) ==
    \A i, j \in 1..Len(entries) :
        entries[i].email = entries[j].email => i = j

\* The JSON objects the persisted file may hold when the first process starts.
InitialObjects ==
    { entries \in UNION {[1..n -> FileEntries] : n \in 0..MaxFileRecs} :
          DistinctKeys(entries) }

\* A file whose record holds an object in place of the array of tags, as
\* JSON.stringify writes a Set.
ObjectTagsFile ==
    JsonFile(<<[RawEntry(AddrB, <<>>, Undefined, "dirty", Undefined,
                         FALSE, FALSE, FALSE)
                   EXCEPT !.tags = [isArray |-> FALSE, items |-> <<>>]]>>)

InitialFiles ==
    {NoFile, CorruptFile, ObjectTagsFile}
        \cup {JsonFile(entries) : entries \in InitialObjects}

\* The lines of the text files given to the insert command.
ImportFiles == { <<AddrA, Junk, AddrB>>, <<BadComma>>, <<AddrA, AddrA>> }

\* The --tag options of the insert command, as a Set.
TagArgs == { <<>>, <<"t1">> }

\* The --locale option of the insert command.
LocaleArgs == {Undefined, "ru"}

\* Address lists given to setStatus and setLastDelivered.
AddressLists == { <<AddrA>>, <<AddrB, AddrA, AddrB>> }

\* The options of the query command: --tag (as a Set), --locale, --status,
\* --cold-days, and the time of the call in half days.
QueryTags == { <<>>, <<"t1">>, <<"t2", "t1">> }

QueryLocales == {Undefined, "en", "ru"}

QueryStatuses == {Undefined} \cup Statuses

QueryColdDays == { <<>>, <<0>>, <<1>>, <<2>> }

QueryTimes == {3, 5, 7}

\* The tag that a caller adds to the tag set of a result entry.
CallerTag == "t3"

\* Delivery events and suppression items of the provider: the address (read
\* as item.recipient or item.address) and the time of the event.
EventA2 == [recipient |-> AddrA, timestamp |-> 2]
EventA1 == [recipient |-> AddrA, timestamp |-> 1]
EventB1 == [recipient |-> AddrB, timestamp |-> 1]

PageItems == { <<>>, <<EventA2>>, <<EventA1, EventB1>> }

NextLinks == {NoNext, ForeignNext, BareNext, Cursor("/c1"), Cursor("/c2")}

\* Every outcome of a fetch, whatever was requested.
Outcomes ==
    {Failure} \cup {Page(items, next) : items \in PageItems, next \in NextLinks}

\* The [ 'unsubscribes', 'bounces', 'complaints' ] of download_broken.
SuppressTypes == <<"unsubscribes", "bounces", "complaints">>

\* The persisted files of the runs that page through the provider.
PagingFiles ==
    { NoFile,
      JsonFile(<<RawEntry(AddrA, <<"t1">>, Undefined, "clean", format(1),
                          FALSE, FALSE, FALSE),
                 RawEntry(AddrB, <<>>, "en", "dirty", Undefined,
                          FALSE, FALSE, FALSE)>>) }

----------------------------------------------------------------------------
(* The processes: each CLI invocation loads, calls the store and may save  *)

NoCall ==
    [op |-> "none", lines |-> <<>>, tags |-> <<>>, locale |-> Undefined,
     status |-> Undefined, ts |-> 0, inserted |-> 0, updated |-> 0,
     deleted |-> 0, fixed |-> 0, res |-> 0, again |-> FALSE,
     coldDays |-> <<>>, now |-> 0]

Call(op) == [NoCall EXCEPT !.op = op]

\* The call repeats the previous one: same operation, same arguments.
SameCall(a, b) ==
    /\ a.op = b.op /\ a.lines = b.lines /\ a.tags = b.tags
    /\ a.locale = b.locale /\ a.status = b.status /\ a.ts = b.ts

Init ==
    /\ file \in InitialFiles
    /\ tmp = NoFile
    /\ db = <<>>
    /\ pc = "start"
    /\ last = NoCall
    /\ nops = 0
    /\ found = <<>>
    /\ drain = NoDrain

\* db.load() when the module starts; an exception of load() ends the process.
Load ==
    /\ pc = "start"
    /\ IF LoadThrows(file)
       THEN pc' = "crashed" /\ db' = <<>>
       ELSE pc' = "ready" /\ db' = load(file)
    /\ last' = Call("load")
    /\ UNCHANGED <<file, tmp, nops, found, drain>>

Insert ==
    /\ pc = "ready"
    /\ nops < MaxOps
    /\ \E lines \in ImportFiles, tags \in TagArgs, locale \in LocaleArgs :
        LET r == insert(db, lines, tags, locale)
            c == [Call("insert") EXCEPT !.lines = lines, !.tags = tags,
                                        !.locale = locale]
        IN  /\ db' = r.db
            /\ last' = [c EXCEPT !.inserted = r.inserted,
                                 !.updated = r.updated,
                                 !.again = SameCall(last, c)]
    /\ nops' = nops + 1
    /\ UNCHANGED <<file, tmp, pc, found, drain>>

Cleanup ==
    /\ pc = "ready"
    /\ nops < MaxOps
    /\ LET r == cleanup(db)
           c == Call("cleanup")
       IN  /\ db' = r.db
           /\ last' = [c EXCEPT !.deleted = r.deleted, !.fixed = r.fixed,
                                !.again = SameCall(last, c)]
    /\ nops' = nops + 1
    /\ UNCHANGED <<file, tmp, pc, found, drain>>

SetStatus ==
    /\ pc = "ready"
    /\ nops < MaxOps
    /\ \E emails \in AddressLists, status \in Statuses :
        LET r == setStatus(db, emails, status)
            c == [Call("setStatus") EXCEPT !.lines = emails, !.status = status]
        IN  /\ db' = r.db
            /\ last' = [c EXCEPT !.res = r.res, !.again = SameCall(last, c)]
    /\ nops' = nops + 1
    /\ UNCHANGED <<file, tmp, pc, found, drain>>

SetLastDelivered ==
    /\ pc = "ready"
    /\ nops < MaxOps
    /\ \E emails \in AddressLists, ts \in Times :
        LET r == setLastDelivered(db, emails, ts)
            c == [Call("setLastDelivered") EXCEPT !.lines = emails, !.ts = ts]
        IN  /\ db' = r.db
            /\ last' = [c EXCEPT !.res = r.res, !.again = SameCall(last, c)]
    /\ nops' = nops + 1
    /\ UNCHANGED <<file, tmp, pc, found, drain>>

\* save(), first statement: the existing file is renamed to the .tmp sibling.
SaveRename ==
    /\ pc = "ready"
    /\ nops < MaxOps
    /\ file' = RenameBackup(file, tmp).file
    /\ tmp' = RenameBackup(file, tmp).tmp
    /\ pc' = "saving"
    /\ last' = Call("save")
    /\ nops' = nops + 1
    /\ UNCHANGED <<db, found, drain>>

\* save(), second statement: the directory is written out.  Whether the
\* runtime of this process defines Set.prototype.toJSON (a polyfill of the
\* build may) is not fixed by the source: either outcome is possible.
SaveWrite ==
    /\ pc = "saving"
    /\ \E toJSON \in BOOLEAN : file' = stringify(db, toJSON)
    /\ pc' = "saved"
    /\ UNCHANGED <<tmp, db, last, nops, found, drain>>

\* save(), second statement: writeFileSync throws (disk full, permission
\* denied).  The file it was writing is absent or holds a part of the text;
\* nothing catches the exception, so the command ends with it.
WriteFails ==
    /\ pc = "saving"
    /\ file' \in {NoFile, CorruptFile}
    /\ pc' = "saveFailed"
    /\ UNCHANGED <<tmp, db, last, nops, found, drain>>

\* The process is killed between the two statements of save(), or while
\* writeFileSync is writing: the main file is then as the rename left it, or
\* holds a part of the text.
Crash ==
    /\ pc = "saving"
    /\ file' \in {file, CorruptFile}
    /\ pc' = "start"
    /\ db' = <<>>
    /\ found' = <<>>
    /\ drain' = NoDrain
    /\ last' = Call("crash")
    /\ UNCHANGED <<tmp, nops>>

\* The process ends; the next invocation starts with nothing in memory.
Exit ==
    /\ pc \in {"ready", "saved", "crashed", "saveFailed", "queried",
              "aborted", "done"}
    /\ pc' = "start"
    /\ db' = <<>>
    /\ found' = <<>>
    /\ drain' = NoDrain
    /\ last' = Call("exit")
    /\ UNCHANGED <<file, tmp, nops>>

Next ==
    \/ Load
    \/ Insert
    \/ Cleanup
    \/ SetStatus
    \/ SetLastDelivered
    \/ SaveRename
    \/ SaveWrite
    \/ WriteFails
    \/ Crash
    \/ Exit

Spec == Init /\ [][Next]_vars

----------------------------------------------------------------------------
(* The query command and callers of lookup                                 *)

\* The action of the query command after its validation of --status:
\* db.lookup({ tags, locale, statusOnly, coldDays }); the command then prints
\* the result and saves nothing.
Lookup ==
    /\ pc = "ready"
    /\ \E tags \in QueryTags, locale \in QueryLocales,
          statusOnly \in QueryStatuses, coldDays \in QueryColdDays,
          now \in QueryTimes :
        LET r == lookup(db, tags, locale, statusOnly, coldDays, now) IN
        /\ db' = r.db
        /\ found' = r.found
        /\ last' = [Call("lookup") EXCEPT !.tags = tags, !.locale = locale,
                                          !.status = statusOnly,
                                          !.coldDays = coldDays, !.now = now]
    /\ pc' = "queried"
    /\ UNCHANGED <<file, tmp, nops, drain>>

\* A caller of lookup() adds a tag to the tag set of an entry of the result.
ChangeResult ==
    /\ pc = "queried"
    /\ \E i \in 1..Len(found) :
        LET r == AddToResult(db, found, i, CallerTag) IN
        /\ db' = r.db
        /\ found' = r.found
    /\ last' = Call("changeResult")
    /\ UNCHANGED <<file, tmp, pc, nops, drain>>

NextQuery ==
    \/ Load
    \/ Lookup
    \/ ChangeResult
    \/ Exit

SpecQuery == Init /\ [][NextQuery]_vars

----------------------------------------------------------------------------
(* The commands that page through the provider                             *)

InitPaging ==
    /\ file \in PagingFiles
    /\ tmp = NoFile
    /\ db = <<>>
    /\ pc = "start"
    /\ last = NoCall
    /\ nops = 0
    /\ found = <<>>
    /\ drain = NoDrain

\* download_broken starts: pageAll for the first suppression type.
StartDownloadBroken ==
    /\ pc = "ready"
    /\ nops < MaxOps
    /\ pc' = "paging"
    /\ drain' = NewDrain("download_broken", 1)
    /\ last' = Call("download_broken")
    /\ nops' = nops + 1
    /\ UNCHANGED <<file, tmp, db, found>>

\* update_delivered starts: pageAll for the delivered events.
StartUpdateDelivered ==
    /\ pc = "ready"
    /\ nops < MaxOps
    /\ pc' = "paging"
    /\ drain' = NewDrain("update_delivered", 1)
    /\ last' = Call("update_delivered")
    /\ nops' = nops + 1
    /\ UNCHANGED <<file, tmp, db, found>>

\* pageAll calls fn or mg.get and waits.
Request ==
    /\ pc = "paging"
    /\ drain.pc = "request"
    /\ drain' = SendRequest(drain)
    /\ UNCHANGED <<file, tmp, db, pc, last, nops, found>>

\* The provider answers, or the transport fails.
Respond ==
    /\ pc = "paging"
    /\ drain.pc = "await"
    /\ \E r \in Outcomes : drain' = Receive(drain, r)
    /\ UNCHANGED <<file, tmp, db, pc, last, nops, found>>

\* pageAll resumes after the await.
Resume ==
    /\ pc = "paging"
    /\ drain.pc = "got"
    /\ drain' = Continue(drain)
    /\ UNCHANGED <<file, tmp, db, pc, last, nops, found>>

\* The exception of pageAll rejects the promise of the command's action:
\* the rest of the action is not run.
Abort ==
    /\ pc = "paging"
    /\ drain.pc = "raised"
    /\ pc' = "aborted"
    /\ UNCHANGED <<file, tmp, db, last, nops, found, drain>>

\* download_broken after a pageAll has returned: the next suppression type,
\* and after the last one saveEmailFile of the addresses, which is not a file
\* of the store.
NextSuppressType ==
    /\ pc = "paging"
    /\ drain.pc = "returned"
    /\ drain.cmd = "download_broken"
    /\ IF drain.round < Len(SuppressTypes)
       THEN /\ drain' = NewDrain("download_broken", drain.round + 1)
            /\ pc' = pc
       ELSE /\ drain' = [drain EXCEPT !.pc = "idle"]
            /\ pc' = "done"
    /\ UNCHANGED <<file, tmp, db, last, nops, found>>

\* update_delivered after pageAll has returned: saveEmailFile of the
\* recipients, setLastDelivered for every event, and the first statement of
\* db.save().
ApplyDelivered ==
    /\ pc = "paging"
    /\ drain.pc = "returned"
    /\ drain.cmd = "update_delivered"
    /\ LET r == ApplyEvents([db |-> db, res |-> 0], drain.result) IN
       /\ db' = r.db
       /\ last' = [Call("setLastDelivered") EXCEPT !.res = r.res]
    /\ file' = RenameBackup(file, tmp).file
    /\ tmp' = RenameBackup(file, tmp).tmp
    /\ drain' = [drain EXCEPT !.pc = "idle"]
    /\ pc' = "saving"
    /\ UNCHANGED <<nops, found>>

NextPaging ==
    \/ Load
    \/ StartDownloadBroken
    \/ StartUpdateDelivered
    \/ Request
    \/ Respond
    \/ Resume
    \/ Abort
    \/ NextSuppressType
    \/ ApplyDelivered
    \/ SaveWrite
    \/ WriteFails
    \/ Crash
    \/ Exit

SpecPaging == InitPaging /\ [][NextPaging]_vars

\* A fetch that has been sent settles, and code that can run does run.
SpecPagingFair ==
    /\ SpecPaging
    /\ WF_vars(Request)
    /\ WF_vars(Respond)
    /\ WF_vars(Resume)

----------------------------------------------------------------------------
(* Vocabulary of the properties                                            *)

KeySet(d) == Range(Keys(d))

TagSet(rec) == Range(rec.tags)

\* The step is a call of op on the store.
IsCall(op) == last'.op = op /\ nops' = nops + 1

\* The step is taken by a process between its load and its save or exit.
StoreStep == pc = "ready" /\ pc' = "ready"

\* The fields of a record, whatever key it is stored under.
SameFields(a, b) ==
    /\ TagSet(a) = TagSet(b)
    /\ a.locale = b.locale
    /\ a.status = b.status
    /\ a.lastDelivered = b.lastDelivered

\* Same keys, and under each key set-equal tags and the same locale, status
\* and lastDelivered.
SameDirectory(d1, d2) ==
    /\ KeySet(d1) = KeySet(d2)
    /\ \A k \in KeySet(d1) : SameFields(Get(d1, k), Get(d2, k))

Normalized(k) == filterEmail(k) = k

\* The addresses obtained by normalizing the lines of an import file.
Parsed(lines) == {filterEmail(lines[i]) : i \in 1..Len(lines)} \ {<<>>}

----------------------------------------------------------------------------
(* C1 *)

\* C1: persistence round trip.  Once save() has written the file, load() of
\* that file completes and yields a directory with the same keys whose
\* records have set-equal tags and the same locale, status and
\* lastDelivered; and the persisted tags of every record are an array holding
\* exactly the members of its tag set.
C1_RoundTrip ==
    pc = "saved" =>
        /\ ~LoadThrows(file)
        /\ SameDirectory(load(file), db)
        /\ \A i \in 1..Len(file.entries) :
              /\ file.entries[i].tags.isArray
              /\ Range(file.entries[i].tags.items) =
                     TagSet(Get(db, file.entries[i].email))

----------------------------------------------------------------------------
(* C2 *)

\* C2: insert counters are disjoint per address.  Every parsed address that
\* was absent before the call is counted in inserted and none of them is
\* counted in updated, so updated counts only parsed addresses that were
\* already keys: inserting new addresses into an empty directory reports
\* updated = 0 whatever tags or locale are supplied.
C2_CountersDisjoint ==
    [][IsCall("insert") =>
         /\ last'.inserted = Cardinality(Parsed(last'.lines) \ KeySet(db))
         /\ last'.updated <= Cardinality(Parsed(last'.lines) \cap KeySet(db))]_vars

----------------------------------------------------------------------------
(* C3 *)

\* C3: insert is idempotent.  An insert that repeats the previous call (same
\* file, same tags, same locale) reports inserted = 0 and updated = 0 and
\* leaves the whole directory, hence every tag set, unchanged.
C3_InsertIdempotent ==
    [][IsCall("insert") /\ last'.again =>
         /\ last'.inserted = 0
         /\ last'.updated = 0
         /\ db' = db]_vars

\* A second insert of the file with two addresses and a junk line, with a tag
\* and a locale, into a directory that was empty before the first one.
C3_Witness ==
    /\ last.op = "insert" /\ last.again /\ nops = 2
    /\ file.kind = "missing"
    /\ last.lines = <<AddrA, Junk, AddrB>>
    /\ last.tags = <<"t1">> /\ last.locale = "ru"
    /\ KeySet(db) = {AddrA, AddrB}

----------------------------------------------------------------------------
(* C4 *)

\* C4: the effect of insert per parsed address.  After insert(lines, tags,
\* locale) every address obtained by normalizing a line is a key; one that
\* was absent has status dirty and exactly the supplied tags; one that was
\* present has the union of its old tags and the supplied tags; its locale
\* is the supplied one when one is supplied and otherwise what it was
\* (nothing for a new record); no other key appears and the records of the
\* other keys are unchanged, so a line that does not normalize changes
\* nothing.
C4_InsertEffect ==
    [][IsCall("insert") =>
         /\ KeySet(db') = KeySet(db) \cup Parsed(last'.lines)
         /\ \A k \in Parsed(last'.lines) :
               LET new == Get(db', k) IN
               /\ IF k \in KeySet(db)
                  THEN /\ TagSet(new) = TagSet(Get(db, k)) \cup Range(last'.tags)
                       /\ last'.locale = Undefined
                              => new.locale = Get(db, k).locale
                  ELSE /\ new.status = "dirty"
                       /\ TagSet(new) = Range(last'.tags)
                       /\ last'.locale = Undefined => new.locale = Undefined
               /\ last'.locale # Undefined => new.locale = last'.locale
               /\ Cardinality(TagSet(new)) = Len(new.tags)
         /\ \A k \in KeySet(db) \ Parsed(last'.lines) :
               Get(db', k) = Get(db, k)]_vars

\* An insert of a file with a known address, a junk line and a new address,
\* with a tag and a locale: one record created, one merged.
C4_Witness ==
    /\ last.op = "insert" /\ nops = 1
    /\ last.lines = <<AddrA, Junk, AddrB>>
    /\ last.tags = <<"t1">> /\ last.locale = "ru"
    /\ last.inserted = 1
    /\ TagSet(Get(db, AddrA)) = {"t1", "t2"}
    /\ TagSet(Get(db, AddrB)) = {"t1"}
    /\ Get(db, AddrB).status = "dirty"

----------------------------------------------------------------------------
(* C5 *)

\* C5: the changed-count of setStatus.  setStatus(addresses, s) returns the
\* number of keys that occur in addresses and whose status before the call
\* differed from s, and a call that repeats the previous one returns 0.
C5_ChangedCount ==
    [][IsCall("setStatus") =>
         /\ last'.res =
                Cardinality({k \in KeySet(db) \cap Range(last'.lines) :
                                Get(db, k).status # last'.status})
         /\ last'.again => last'.res = 0]_vars

\* The second of two equal setStatus calls that name b@y.ru, which the file
\* holds as clean, with status broken: the first call changed it.
C5_Witness ==
    /\ last.op = "setStatus" /\ last.again /\ nops = 2
    /\ last.status = "broken" /\ Includes(last.lines, AddrB)
    /\ file.kind = "json"
    /\ \E i \in 1..Len(file.entries) :
          file.entries[i].email = AddrB /\ file.entries[i].status = "clean"
    /\ Get(db, AddrB).status = "broken"
    /\ last.res = 0

----------------------------------------------------------------------------
(* C6 *)

\* C6 as stated: setLastDelivered(addresses, ts) sets lastDelivered to the serialized
\* ts on every input address that is a key and returns the number of
\* addresses so updated, an address whose stored value already equalled ts
\* included.
C6_CountsAddresses ==
    [][IsCall("setLastDelivered") =>
         /\ \A k \in KeySet(db) \cap Range(last'.lines) :
               Get(db', k).lastDelivered = format(last'.ts)
         /\ last'.res = Cardinality(KeySet(db) \cap Range(last'.lines))]_vars

\* C6, amended: setLastDelivered(addresses, ts) sets lastDelivered to the
\* serialized ts on every input address that is a key and returns the number
\* of entries of the input list that are keys: an address listed twice is
\* counted twice, and an entry is counted even when the stored value already
\* equalled ts.
C6_CountsEntries ==
    [][IsCall("setLastDelivered") =>
         /\ \A k \in KeySet(db) \cap Range(last'.lines) :
               Get(db', k).lastDelivered = format(last'.ts)
         /\ last'.res =
                Cardinality({i \in 1..Len(last'.lines) :
                                last'.lines[i] \in KeySet(db)})]_vars

\* setLastDelivered on a list that names b@y.ru twice, with the time the file
\* already holds for b@y.ru: all three entries are counted.
C6_Witness ==
    /\ last.op = "setLastDelivered" /\ nops = 1
    /\ last.lines = <<AddrB, AddrA, AddrB>> /\ last.ts = 1
    /\ file.kind = "json"
    /\ \E i \in 1..Len(file.entries) :
          /\ file.entries[i].email = AddrB
          /\ file.entries[i].lastDelivered = format(1)
    /\ last.res = 3
    /\ Get(db, AddrB).lastDelivered = format(1)

----------------------------------------------------------------------------
(* C7 *)

\* C7: postcondition and idempotence of cleanup.  After cleanup() every key
\* equals its own normalization, and a cleanup that follows a cleanup
\* reports deleted = 0 and fixed = 0 and changes nothing.
C7_CleanupPost ==
    [][IsCall("cleanup") =>
         /\ \A k \in KeySet(db') : Normalized(k)
         /\ last'.again =>
               /\ last'.deleted = 0
               /\ last'.fixed = 0
               /\ db' = db]_vars

\* The second of two cleanups of a directory loaded from a file that holds a
\* key to re-key and a key to delete.
C7_Witness ==
    /\ last.op = "cleanup" /\ last.again /\ nops = 2
    /\ file.kind = "json"
    /\ \E i, j \in 1..Len(file.entries) :
          /\ file.entries[i].email = BadComma
          /\ file.entries[j].email = Junk
    /\ KeySet(db) = {AddrB}

----------------------------------------------------------------------------
(* C8 *)

\* C8: re-keying by cleanup.  For every key k whose normalization is another
\* string k2, after cleanup() k is gone, k2 holds the record that was stored
\* under k with tags, locale, status and lastDelivered intact, and fixed
\* counts each such key once; every key whose normalization yields nothing is
\* gone and deleted counts each such key once.
C8_Rekeying ==
    [][IsCall("cleanup") =>
         /\ \A k \in KeySet(db) :
               /\ filterEmail(k) = <<>> => k \notin KeySet(db')
               /\ filterEmail(k) \notin {<<>>, k} =>
                     /\ k \notin KeySet(db')
                     /\ filterEmail(k) \in KeySet(db')
                     /\ SameFields(Get(db', filterEmail(k)), Get(db, k))
         /\ last'.fixed =
                Cardinality({k \in KeySet(db) : filterEmail(k) \notin {<<>>, k}})
         /\ last'.deleted =
                Cardinality({k \in KeySet(db) : filterEmail(k) = <<>>})]_vars

----------------------------------------------------------------------------
(* C9 *)

\* C9: record lifetime.  No call on the store removes a record whose key
\* equals its own normalization, and cleanup, which is the only call that
\* destroys records, leaves such a record as it is: it is not replaced by
\* another record.
C9_RecordLifetime ==
    [][StoreStep =>
         \A k \in KeySet(db) :
             Normalized(k) =>
                 /\ k \in KeySet(db')
                 /\ last'.op = "cleanup" => Get(db', k) = Get(db, k)]_vars

----------------------------------------------------------------------------
(* C10 *)

\* C10: lastDelivered is never cleared.  A record that has a lastDelivered
\* value and whose address remains a key still has one after any call on the
\* store, and the value changes only in a setLastDelivered call that names
\* the address.
C10_NeverCleared ==
    [][StoreStep =>
         \A k \in KeySet(db) \cap KeySet(db') :
             Get(db, k).lastDelivered # Undefined =>
                 /\ Get(db', k).lastDelivered # Undefined
                 /\ Get(db', k).lastDelivered # Get(db, k).lastDelivered =>
                       /\ last'.op = "setLastDelivered"
                       /\ Includes(last'.lines, k)]_vars

----------------------------------------------------------------------------
(* Vocabulary of the properties about lookup                               *)

\* The step is the lookup() of a query command.
LookupStep == pc = "ready" /\ pc' = "queried"

\* The step is taken by the caller that holds the result of lookup().
CallerStep == pc = "queried" /\ pc' = "queried"

FoundKeys(entries) == {entries[i].email : i \in 1..Len(entries)}

\* The records of d with any status but broken.
NotBroken(d) == {k \in KeySet(d) : Get(d, k).status # "broken"}

\* The locale of a record as the specification resolves it.
Resolved(rec) ==
    IF rec.locale # Undefined THEN rec.locale
    ELSE LET k == rec.email
             n == Len(rec.email)
         IN  IF n >= 3 /\ k[n - 2] = "." /\ k[n - 1] = "r" /\ k[n] = "u"
             THEN "ru" ELSE "en"

\* The number of whole days between now (in half days) and the moment of an
\* ISO text.
WholeDays(now, text) ==
    LET h == IF now >= 2 * ParseIso(text) THEN now - 2 * ParseIso(text)
             ELSE 2 * ParseIso(text) - now
    IN  CHOOSE n \in 0..h : 2 * n <= h /\ h < 2 * (n + 1)

\* Too recently delivered for a query with coldDays at the time now.
TooRecent(rec, coldDays, now) ==
    /\ coldDays # <<>>
    /\ rec.lastDelivered # Undefined
    /\ WholeDays(now, rec.lastDelivered) < coldDays[1]

----------------------------------------------------------------------------
(* C11 *)

\* C11: the status gate of lookup.  With a status filter s every returned
\* record has status s; with no status filter no returned record is broken;
\* and with no tags and no other filter the result is exactly the set of the
\* records that are not broken.
C11_StatusGate ==
    [][LookupStep =>
         /\ last'.status # Undefined =>
               \A k \in FoundKeys(found') : Get(db, k).status = last'.status
         /\ last'.status = Undefined =>
               \A k \in FoundKeys(found') : Get(db, k).status # "broken"
         /\ (/\ last'.status = Undefined /\ last'.tags = <<>>
             /\ last'.locale = Undefined /\ last'.coldDays = <<>>) =>
               FoundKeys(found') = NotBroken(db)]_vars

\* A lookup with status broken on a directory that holds a broken record (a
\* legacy one) and a clean one: only the broken one is returned.
C11_Witness ==
    /\ pc = "queried" /\ last.op = "lookup"
    /\ last.status = "broken" /\ last.tags = <<>>
    /\ KeySet(db) = {AddrA, AddrB}
    /\ Get(db, AddrA).status = "broken" /\ Get(db, AddrB).status = "clean"
    /\ FoundKeys(found) = {AddrA}

----------------------------------------------------------------------------
(* C12 *)

\* C12: the tag gate of lookup.  A record that passes the status, recency
\* and locale gates is returned if and only if its tag set includes every
\* requested tag; a request with no tags excludes no such record.
C12_TagGate ==
    [][LookupStep =>
         \A k \in KeySet(db) :
             LET rec == Get(db, k) IN
             (/\ ~SkipOnStatus(rec, last'.status)
              /\ ~SkipOnRecency(rec, last'.coldDays, last'.now)
              /\ ~SkipOnLocale(rec, last'.locale)) =>
                 (k \in FoundKeys(found') <=>
                      Range(last'.tags) \subseteq TagSet(rec))]_vars

\* A lookup of the tags t2 and t1 on a directory with a record tagged t1, t2
\* and a record tagged t1 only: the first is returned, the second is not.
C12_Witness ==
    /\ pc = "queried" /\ last.op = "lookup"
    /\ last.tags = <<"t2", "t1">> /\ last.status = Undefined
    /\ KeySet(db) = {AddrB, BadComma}
    /\ TagSet(Get(db, BadComma)) = {"t1"}
    /\ FoundKeys(found) = {AddrB}

----------------------------------------------------------------------------
(* C13 *)

\* C13: locale resolution and the locale gate.  The locale of every result
\* entry is the record's stored locale when it has one, and otherwise "ru"
\* when the address ends in ".ru" and "en" when it does not; a lookup with a
\* locale returns only records whose resolved locale is that locale, and
\* every record that passes the other gates and resolves to it.
C13_LocaleGate ==
    [][LookupStep =>
         /\ \A i \in 1..Len(found') :
               /\ found'[i].locale = Resolved(Get(db, found'[i].email))
               /\ last'.locale # Undefined => found'[i].locale = last'.locale
         /\ \A k \in KeySet(db) :
               LET rec == Get(db, k) IN
               (/\ ~SkipOnStatus(rec, last'.status)
                /\ ~SkipOnRecency(rec, last'.coldDays, last'.now)
                /\ ~SkipOnTags(rec, last'.tags)
                /\ Resolved(rec) = last'.locale) =>
                   k \in FoundKeys(found')]_vars

\* A lookup with locale ru on a directory with " b@y.ru", which stores no
\* locale, and b@y.ru, which stores en: only the first is returned, as ru.
C13_Witness ==
    /\ pc = "queried" /\ last.op = "lookup"
    /\ last.locale = "ru"
    /\ KeySet(db) = {AddrB, BadSpace}
    /\ Get(db, AddrB).locale = "en"
    /\ Get(db, BadSpace).locale = Undefined
    /\ FoundKeys(found) = {BadSpace}
    /\ found[1].locale = "ru"

----------------------------------------------------------------------------
(* C14 *)

\* C14: the recency gate of lookup.  A record that passes the status, tag
\* and locale gates is excluded if and only if coldDays is given, the record
\* has a lastDelivered and the number of whole days between now and
\* lastDelivered is less than coldDays.
C14_RecencyGate ==
    [][LookupStep =>
         \A k \in KeySet(db) :
             LET rec == Get(db, k) IN
             (/\ ~SkipOnStatus(rec, last'.status)
              /\ ~SkipOnTags(rec, last'.tags)
              /\ ~SkipOnLocale(rec, last'.locale)) =>
                 (k \notin FoundKeys(found') <=>
                      TooRecent(rec, last'.coldDays, last'.now))]_vars

\* A lookup with coldDays 1, a day and a half after the delivery to b@y.ru
\* and half a day after the delivery to " b@y.ru", on a directory that also
\* holds a record never delivered to: the second record is excluded.
C14_Witness ==
    /\ pc = "queried" /\ last.op = "lookup"
    /\ last.coldDays = <<1>> /\ last.now = 5
    /\ last.status = Undefined /\ last.tags = <<>> /\ last.locale = Undefined
    /\ KeySet(db) = {AddrB, BadSpace}
    /\ Get(db, AddrB).lastDelivered = format(1)
    /\ Get(db, BadSpace).lastDelivered = format(2)
    /\ FoundKeys(found) = {AddrB}

----------------------------------------------------------------------------
(* C15 *)

\* C15: lookup is read-only.  A lookup leaves the directory as it was, so
\* a derived locale is not stored in a record without a locale, and a change
\* that the caller makes to the tag set of a result entry leaves the
\* directory as it was.
C15_ReadOnly ==
    [][LookupStep \/ CallerStep => db' = db]_vars

\* The caller has added a tag to the result entry of " b@y.ru", returned
\* with the derived locale ru: the record has no locale and not that tag.
C15_Witness ==
    /\ pc = "queried" /\ last.op = "changeResult"
    /\ \E i \in 1..Len(found) :
          /\ found[i].email = BadSpace
          /\ found[i].locale = "ru"
          /\ Includes(found[i].tags, CallerTag)
    /\ Get(db, BadSpace).locale = Undefined
    /\ ~Includes(Get(db, BadSpace).tags, CallerTag)

----------------------------------------------------------------------------
(* C16 *)

\* C16: load never throws.  Whatever the persisted file holds (nothing, text
\* that is not JSON, JSON of any shape) load() completes, and when the file
\* is missing or is not JSON the directory after load() is empty.
C16_LoadNeverThrows ==
    /\ pc # "crashed"
    /\ (last.op = "load" /\ file.kind \in {"missing", "corrupt"}) => db = <<>>

----------------------------------------------------------------------------
(* C17 *)

\* The step is the first statement of a save().
SaveStart == pc = "ready" /\ pc' = "saving"

\* The texts that writeFileSync may have written for the directory d.
Written(d) == {stringify(d, toJSON) : toJSON \in BOOLEAN}

\* C17: backup before write.  The first step of save() moves an existing
\* file to the .tmp sibling and leaves no main file; no later step of that
\* save (the write, a failure of the write, a crash) touches the .tmp
\* sibling, so the previously persisted content is in the main file before
\* the rename and in the .tmp sibling from then on; and the save is complete
\* only when the main file holds the text of the directory: a write that
\* fails ends the command with the exception.
C17_BackupBeforeWrite ==
    [][/\ (SaveStart /\ file.kind # "missing") =>
              tmp' = file /\ file'.kind = "missing"
       /\ (SaveStart /\ file.kind = "missing") =>
              tmp' = tmp /\ file' = file
       /\ pc = "saving" =>
              /\ tmp' = tmp
              /\ pc' = "saved" => file' \in Written(db)
              /\ file' \notin Written(db) => pc' \in {"saveFailed", "start"}]_vars

\* The write of a changed directory has failed after the rename: the main
\* file is unreadable and the .tmp sibling holds the records persisted
\* before, which differ from those in memory.
C17_Witness ==
    /\ pc = "saveFailed"
    /\ file.kind = "corrupt"
    /\ tmp.kind = "json" /\ tmp.entries # <<>>
    /\ ~LoadThrows(tmp)
    /\ ~SameDirectory(load(tmp), db)

----------------------------------------------------------------------------
(* Vocabulary of the properties about pageAll                              *)

RECURSIVE Flatten(_)
Flatten(pages) ==
    IF pages = <<>> THEN <<>> ELSE Head(pages) \o Flatten(Tail(pages))

\* pageAll has returned or has thrown.
DrainEnded == drain.pc \in {"returned", "raised"}

\* The outcome received ends a drain: a rejected fetch or a page of no items.
StopsDrain(r) == r.failed \/ r.items = <<>>

----------------------------------------------------------------------------
(* C18 *)

\* C18: the result of a drain.  When pageAll returns, the last page it
\* fetched is the only one with no items, and the list returned is the
\* concatenation, in fetch order, of the items of the pages before it: no
\* page is fetched after the first empty page, with or without a cursor on
\* it.  At most one fetch is in flight at any time.  (Stated for the drains
\* whose items the model records in full.)
C18_DrainResult ==
    /\ drain.inflight \in {0, 1}
    /\ drain.inflight = 1 <=> drain.pc = "await"
    /\ (drain.pc = "returned" /\ ~drain.more) =>
          LET n == Len(drain.pages) IN
          /\ n >= 1
          /\ drain.pages[n] = <<>>
          /\ \A i \in 1..(n - 1) : drain.pages[i] # <<>>
          /\ drain.result = Flatten(SubSeq(drain.pages, 1, n - 1))

\* pageAll has returned three items fetched in two pages, after a third page
\* that had no items and carried a cursor.
C18_Witness ==
    /\ drain.pc = "returned"
    /\ drain.pages = << <<EventA2>>, <<EventA1, EventB1>>, <<>> >>
    /\ drain.result = <<EventA2, EventA1, EventB1>>
    /\ drain.response.next = Cursor("/c1")

----------------------------------------------------------------------------
(* C19 *)

\* C19 as stated: every drain ends, whatever the provider does: pageAll
\* eventually returns or throws.
C19_AlwaysTerminates ==
    (drain.pc = "request") ~> DrainEnded

\* C19, amended: a drain ends when the provider returns a page with no
\* items (with or without a cursor) or a fetch fails: pageAll then returns or
\* throws without another fetch.  Against a provider that keeps returning
\* pages with items and a next link the drain goes on.
C19_EndsOnEmptyPage ==
    (drain.pc = "got" /\ StopsDrain(drain.response)) ~> DrainEnded

\* The provider has answered the request for the cursor /c2 with a page of
\* no items that carries the cursor /c2 again.
C19_Witness ==
    /\ drain.pc = "got"
    /\ drain.via = "get" /\ drain.url = "/c2"
    /\ drain.response = Page(<<>>, Cursor("/c2"))
    /\ drain.result # <<>>

----------------------------------------------------------------------------
(* C20 *)

\* C20: a failed fetch is fatal.  When a fetch fails pageAll throws: it does
\* not send the request again and returns no list.  From then on the process
\* changes no record, renames and writes no file and only ends: the command
\* applies nothing of what the drain had fetched.
C20_FailureIsFatal ==
    [][/\ (drain.pc = "got" /\ drain.response.failed) =>
              /\ drain'.pc = "raised"
              /\ drain'.result = <<>>
       /\ drain'.pc = "raised" => db' = db /\ file' = file /\ tmp' = tmp
       /\ drain.pc = "raised" =>
              /\ file' = file /\ tmp' = tmp
              /\ last'.op \notin {"save", "setLastDelivered"}
              /\ \/ drain' = drain /\ db' = db /\ pc' = "aborted"
                 \/ drain' = NoDrain /\ db' = <<>> /\ pc' = "start"]_vars

\* update_delivered has ended with the exception of a fetch that failed after
\* a page with a delivery to a@x.co was fetched: the record of a@x.co is as
\* the file has it.
C20_Witness ==
    /\ pc = "aborted"
    /\ drain.cmd = "update_delivered"
    /\ drain.response.failed
    /\ drain.pages = << <<EventA2>> >>
    /\ file.kind = "json"
    /\ db = load(file)
    /\ Get(db, AddrA).lastDelivered = format(1)

----------------------------------------------------------------------------
(* C21 *)

\* C21: status is always one of the three states.  In a process that has
\* loaded the file, after the load and after every call on the store, the
\* status of every record is dirty, clean or broken; in particular a record
\* loaded without flags and without status is dirty.
C21_StatusIsOneOfThree ==
    pc = "ready" => \A i \in 1..Len(db) : db[i].status \in Statuses

----------------------------------------------------------------------------
(* C22 *)

\* C22: setStatus and setLastDelivered touch only what they name.  Neither
\* adds or removes a key; the records of the keys that are not in the input
\* are unchanged; setStatus changes nothing but status and setLastDelivered
\* nothing but lastDelivered.
C22_TouchOnlyNamed ==
    [][IsCall("setStatus") \/ IsCall("setLastDelivered") =>
         /\ Keys(db') = Keys(db)
         /\ \A k \in KeySet(db) :
               LET old == Get(db, k)
                   new == Get(db', k)
               IN  /\ k \notin Range(last'.lines) => new = old
                   /\ new.tags = old.tags /\ new.locale = old.locale
                   /\ IsCall("setStatus") =>
                          new.lastDelivered = old.lastDelivered
                   /\ IsCall("setLastDelivered") =>
                          new.status = old.status]_vars

\* setStatus broken on a list that names b@y.ru and a@x.co, on a directory
\* that holds b@y.ru with tags, a locale and a lastDelivered, and not a@x.co.
C22_Witness ==
    /\ last.op = "setStatus" /\ nops = 1
    /\ last.lines = <<AddrB, AddrA, AddrB>> /\ last.status = "broken"
    /\ KeySet(db) = {AddrB, BadComma}
    /\ Get(db, AddrB).status = "broken"
    /\ Get(db, AddrB).lastDelivered = format(1)
    /\ TagSet(Get(db, AddrB)) = {"t1", "t2"}
    /\ Get(db, BadComma).status = "dirty"

----------------------------------------------------------------------------
(* C23 *)

\* C23: a status transition survives persistence.  When a save has written
\* the directory and load() of the file written completes, every record is
\* loaded with the status it had in memory when it was saved, also a record
\* that came from a legacy file with broken or clean set and whose status
\* setStatus has changed since.
C23_StatusSurvives ==
    (pc = "saved" /\ ~LoadThrows(file)) =>
        \A k \in KeySet(db) :
            Get(load(file), k).status = Get(db, k).status

----------------------------------------------------------------------------
(* C24 *)

\* C24: cleanup accounting.  The number of keys after cleanup() is the number
\* of keys before it minus the reported deleted count, also when the
\* corrected key of a malformed key is a key already.
C24_CleanupAccounting ==
    [][IsCall("cleanup") =>
         Cardinality(KeySet(db')) =
             Cardinality(KeySet(db)) - last'.deleted]_vars

----------------------------------------------------------------------------
(* C25 *)

\* The content of the last save that completed, while it is readable: the
\* main file when it is a whole JSON text, and otherwise the .tmp sibling.
LatestSaved == IF file.kind = "json" THEN file ELSE tmp

\* C25: the backup survives later invocations.  No step of any invocation,
\* also one that follows a save that crashed or failed, leaves the records
\* of the last completed save in neither the main file nor the .tmp sibling.
C25_BackupSurvives ==
    [][(LatestSaved.kind = "json" /\ LatestSaved.entries # <<>>) =>
           LatestSaved \in {file', tmp'}]_vars

----------------------------------------------------------------------------
(* C26 *)

\* C26: cursor discipline of pageAll.  Every fetch after the first page goes
\* to the cursor of the page received last, never to the first-page function
\* again, and pageAll throws only when a fetch has failed.
C26_CursorDiscipline ==
    /\ (drain.pc = "await" /\ drain.pages # <<>>) =>
          /\ drain.via = "get"
          /\ drain.response.next.prefixed
          /\ drain.url = drain.response.next.rest
    /\ drain.pc = "raised" => drain.response.failed

----------------------------------------------------------------------------
(* C27 *)

\* C27: insert never changes the lifecycle fields of an existing record.  For
\* every key of the directory, insert leaves status and lastDelivered as they
\* were and removes no tag, and the record of a key that no line of the file
\* normalizes to is unchanged.
C27_InsertKeepsLifecycle ==
    [][IsCall("insert") =>
         \A k \in KeySet(db) :
             /\ k \in KeySet(db')
             /\ Get(db', k).status = Get(db, k).status
             /\ Get(db', k).lastDelivered = Get(db, k).lastDelivered
             /\ TagSet(Get(db, k)) \subseteq TagSet(Get(db', k))
             /\ k \notin Parsed(last'.lines) => Get(db', k) = Get(db, k)]_vars

\* An insert with a tag and a locale of a file that names a@x.co, loaded as
\* broken, and b@y.ru, loaded as clean with a lastDelivered: both get the tag
\* and keep status and lastDelivered.
C27_Witness ==
    /\ last.op = "insert" /\ nops = 1
    /\ last.lines = <<AddrA, Junk, AddrB>>
    /\ last.tags = <<"t1">> /\ last.locale = "ru"
    /\ last.inserted = 0
    /\ Get(db, AddrA).status = "broken"
    /\ Get(db, AddrB).status = "clean"
    /\ Get(db, AddrB).lastDelivered = format(1)
    /\ TagSet(Get(db, AddrA)) = {"t1", "t2"}

----------------------------------------------------------------------------
(* C28 *)

\* The times of the events for the address k.
EventTimes(events, k) ==
    {events[i].timestamp : i \in {j \in 1..Len(events) : events[j].recipient = k}}

\* The step in which update_delivered applies the drained events.
ApplyStep ==
    /\ pc = "paging" /\ pc' = "saving"
    /\ drain.cmd = "update_delivered" /\ ~drain.more

\* C28: update_delivered keeps the newest delivery time.  After the command
\* has applied the drained events, the lastDelivered of every key that is
\* the recipient of some event is the latest time among its events, in
\* whatever order the provider returned them.
C28_KeepsNewest ==
    [][ApplyStep =>
         \A k \in KeySet(db) :
             EventTimes(drain.result, k) # {} =>
                 \E t \in EventTimes(drain.result, k) :
                     /\ \A u \in EventTimes(drain.result, k) : u <= t
                     /\ Get(db', k).lastDelivered = format(t)]_vars

====
